---------------------------- MODULE Spec2Model ----------------------------
(***************************************************************************)
(* rtpsend: the script framer, the RTP and RTCP packet generators and the  *)
(* pacing timer handler of src/rtpsend.c.                                  *)
(*                                                                         *)
(* A C string is a sequence of characters.  A character is a record        *)
(* [c, n]: c is the character (a one-character string) and n >= 1 says how *)
(* many times it is repeated, so that a long run of one filler character   *)
(* is one element.  Keywords and numbers are written with n = 1.           *)
(***************************************************************************)
EXTENDS Integers, Sequences, FiniteSets, TLC

VARIABLES
  script,        \* contents of the input file (FILE *in), fixed
  loop,          \* static int loop
  littleEndian,  \* byte order of the host the program was built for
  unread,        \* the part of the file after the read position
  eof,           \* the stream's end-of-file indicator, feof(in)
  line,          \* static char line[MAX_TEXT_LINE] of send_handler
  text,          \* char text[MAX_TEXT_LINE] of send_handler, as last assembled
  packet,        \* static packet: length, time, type (data is below)
  data,          \* packet.data, up to the highest byte written so far
  isfirstpacket, \* static int isfirstpacket
  basetime,      \* static struct timeval basetime
  timer,         \* the deadline handed to timer_set
  now,           \* the wall clock, gettimeofday
  pc,            \* "main", "waiting", "exited", "undefined"
  exitCode,      \* the argument of exit
  sent,          \* history: the datagrams handed to send(), oldest first
  warned,        \* history: script times of the non-monotonic warnings
  hist,          \* history: per handler run, what was buffered and how
  ticks          \* history: the number of runs of send_handler so far

vars == <<script, loop, littleEndian, unread, eof, line, text, packet, data,
          isfirstpacket, basetime, timer, now, pc, exitCode, sent, warned, hist,
          ticks>>

-----------------------------------------------------------------------------
(* Characters and the C library calls the program makes on them.           *)

Ch(c) == [c |-> c, n |-> 1]

S(t) == [i \in 1..Len(t) |-> Ch(t[i])]

Run(c, k) == <<[c |-> c, n |-> k]>>

\* The number of characters of s: of its first half and of the rest.
RECURSIVE strlen(_)
strlen(s) ==
  IF s = <<>> THEN 0
  ELSE IF Len(s) = 1 THEN s[1].n
  ELSE strlen(SubSeq(s, 1, Len(s) \div 2))
       + strlen(SubSeq(s, (Len(s) \div 2) + 1, Len(s)))

Tl(s, i) == SubSeq(s, i, Len(s))

isspace(ch) == ch.c \in {" ", "\t", "\n", "\r"}

DecDigits == <<"0", "1", "2", "3", "4", "5", "6", "7", "8", "9">>

isdigit(ch) == \E i \in 1..10 : DecDigits[i] = ch.c

HexLower == <<"a", "b", "c", "d", "e", "f">>

HexUpper == <<"A", "B", "C", "D", "E", "F">>

isxdigit(ch) ==
  isdigit(ch) \/ \E i \in 1..6 : HexLower[i] = ch.c \/ HexUpper[i] = ch.c

DigitVal(ch) ==
  IF isdigit(ch) THEN (CHOOSE i \in 1..10 : DecDigits[i] = ch.c) - 1
  ELSE 9 + (CHOOSE i \in 1..6 : HexLower[i] = ch.c \/ HexUpper[i] = ch.c)

IsDigitOf(ch, base) == isxdigit(ch) /\ DigitVal(ch) < base

(* A uint32_t is a pair <<hi, lo>> of 16-bit halves, so that no intermediate *)
(* value leaves the range of the checker's integers.                        *)
U32(k) == <<(k \div 65536) % 65536, k % 65536>>

U32Zero == <<0, 0>>

\* The value as an int, for the values the program uses as lengths or indices.
ToInt(v) == (v[1] % 32768) * 65536 + v[2]

\* v * k + d modulo 2^32, for 0 <= k < 2^15 and 0 <= d < 2^15.
MulAdd32(v, k, d) ==
  LET lo == v[2] * k + d
      hi == v[1] * k + (lo \div 65536)
  IN <<hi % 65536, lo % 65536>>

Add32(a, b) ==
  LET lo == a[2] + b[2]
      hi == a[1] + b[1] + (lo \div 65536)
  IN <<hi % 65536, lo % 65536>>

Sub32(a, b) ==
  LET lo == a[2] - b[2]
      hi == a[1] - b[1] - (IF lo < 0 THEN 1 ELSE 0)
  IN <<hi % 65536, lo % 65536>>

RECURSIVE AccRun(_, _, _, _)
AccRun(acc, d, base, k) ==
  IF k = 0 THEN acc ELSE AccRun(MulAdd32(acc, base, d), d, base, k - 1)

RECURSIVE Accum(_, _, _)
Accum(s, base, acc) ==
  IF s = <<>> \/ ~IsDigitOf(Head(s), base) THEN acc
  ELSE Accum(Tail(s), base, AccRun(acc, DigitVal(Head(s)), base, Head(s).n))

RECURSIVE SkipSpace(_)
SkipSpace(s) == IF s # <<>> /\ isspace(Head(s)) THEN SkipSpace(Tail(s)) ELSE s

\* strtoul(s, NULL, 0) as assigned to a uint32_t: the base follows the prefix.
StrtoulAt(s) ==
  IF Len(s) >= 3 /\ s[1].c = "0" /\ s[1].n = 1 /\ s[2].c \in {"x", "X"}
     /\ s[2].n = 1 /\ isxdigit(s[3])
  THEN Accum(Tl(s, 3), 16, U32Zero)
  ELSE IF s # <<>> /\ s[1].c = "0" THEN Accum(s, 8, U32Zero)
  ELSE Accum(s, 10, U32Zero)

strtoul(s0) == StrtoulAt(SkipSpace(s0))

\* The decimal digits at the head of s and what follows them (%ld, atoi).
RECURSIVE ScanLong(_, _, _)
ScanLong(s, acc, seen) ==
  IF s = <<>> \/ ~isdigit(Head(s)) \/ Head(s).n # 1
  THEN [val |-> acc, ok |-> seen, rest |-> s]
  ELSE ScanLong(Tail(s), acc * 10 + DigitVal(Head(s)), TRUE)

\* atoi(s): leading white space, then decimal digits (no sign in the scripts).
atoi(s) == ScanLong(SkipSpace(s), 0, FALSE).val

\* strchr(s, c): the index of the first c in s, 0 when there is none.
strchr(s, c) ==
  IF \E i \in 1..Len(s) : s[i].c = c
  THEN CHOOSE i \in 1..Len(s) : s[i].c = c /\ \A j \in 1..(i - 1) : s[j].c # c
  ELSE 0

\* The successive results of strtok(text, " "): the maximal runs without
\* ' ', from the first to the last.
TokenStart(s, i) == s[i].c # " " /\ (i = 1 \/ s[i - 1].c = " ")

TokenEnd(s, i) ==
  CHOOSE j \in i..Len(s) :
    (j = Len(s) \/ s[j + 1].c = " ") /\ \A k \in i..j : s[k].c # " "

TokenStarts(s) == {i \in 1..Len(s) : TokenStart(s, i)}

NthStart(starts, k) ==
  CHOOSE i \in starts : Cardinality({j \in starts : j < i}) = k - 1

Tokens(s, starts) ==
  [k \in 1..Cardinality(starts) |->
     SubSeq(s, NthStart(starts, k), TokenEnd(s, NthStart(starts, k)))]

strtok(s) == Tokens(s, TokenStarts(s))

\* The code of a character as a byte of the packet (ASCII).
UpperCase ==
  <<"A", "B", "C", "D", "E", "F", "G", "H", "I", "J", "K", "L", "M", "N", "O",
    "P", "Q", "R", "S", "T", "U", "V", "W", "X", "Y", "Z">>

LowerCase ==
  <<"a", "b", "c", "d", "e", "f", "g", "h", "i", "j", "k", "l", "m", "n", "o",
    "p", "q", "r", "s", "t", "u", "v", "w", "x", "y", "z">>

Punctuation ==
  <<[c |-> "\t", o |-> 9], [c |-> "\n", o |-> 10], [c |-> "\r", o |-> 13],
    [c |-> " ", o |-> 32], [c |-> "\"", o |-> 34], [c |-> "#", o |-> 35],
    [c |-> "(", o |-> 40], [c |-> ")", o |-> 41], [c |-> "-", o |-> 45],
    [c |-> ".", o |-> 46], [c |-> "=", o |-> 61], [c |-> "@", o |-> 64],
    [c |-> "_", o |-> 95]>>

Ord(c) ==
  IF \E i \in 1..10 : DecDigits[i] = c
  THEN 47 + (CHOOSE i \in 1..10 : DecDigits[i] = c)
  ELSE IF \E i \in 1..26 : UpperCase[i] = c
  THEN 64 + (CHOOSE i \in 1..26 : UpperCase[i] = c)
  ELSE IF \E i \in 1..26 : LowerCase[i] = c
  THEN 96 + (CHOOSE i \in 1..26 : LowerCase[i] = c)
  ELSE Punctuation[CHOOSE i \in 1..Len(Punctuation) : Punctuation[i].c = c].o

RECURSIVE Bytes(_)
Bytes(s) ==
  IF s = <<>> THEN <<>>
  ELSE [i \in 1..Head(s).n |-> Ord(Head(s).c)] \o Bytes(Tail(s))

-----------------------------------------------------------------------------
(* struct timeval and the timeradd / timersub macros.                      *)

USEC_PER_SEC == 1000000

Tv(sec, usec) == [tv_sec |-> sec, tv_usec |-> usec]

timersub(a, b) ==
  LET sec == a.tv_sec - b.tv_sec
      usec == a.tv_usec - b.tv_usec
  IN IF usec < 0 THEN Tv(sec - 1, usec + USEC_PER_SEC) ELSE Tv(sec, usec)

timeradd(a, b) ==
  LET sec == a.tv_sec + b.tv_sec
      usec == a.tv_usec + b.tv_usec
  IN IF usec >= USEC_PER_SEC THEN Tv(sec + 1, usec - USEC_PER_SEC)
     ELSE Tv(sec, usec)

TvLess(a, b) ==
  a.tv_sec < b.tv_sec \/ (a.tv_sec = b.tv_sec /\ a.tv_usec < b.tv_usec)

-----------------------------------------------------------------------------
(* The packet buffer: char data[1500], kept up to the highest byte written. *)
(* It is static, so it starts zeroed and keeps what earlier packets wrote.  *)

PACKET_DATA_SIZE == 1500

Get8(d, off) == IF off < Len(d) THEN d[off + 1] ELSE 0

Put8(d, off, v) ==
  LET padded == IF Len(d) <= off
                THEN d \o [i \in 1..(off + 1 - Len(d)) |-> 0]
                ELSE d
  IN [padded EXCEPT ![off + 1] = v % 256]

RECURSIVE PutBytes(_, _, _)
PutBytes(d, off, bs) ==
  IF bs = <<>> THEN d ELSE PutBytes(Put8(d, off, Head(bs)), off + 1, Tail(bs))

\* htons / htonl followed by the store: most significant byte first.
Put16BE(d, off, v) ==
  PutBytes(d, off, <<(v \div 256) % 256, v % 256>>)

BE32(v) == <<v[1] \div 256, v[1] % 256, v[2] \div 256, v[2] % 256>>

Put32BE(d, off, v) == PutBytes(d, off, BE32(v))

Get16BE(d, off) == Get8(d, off) * 256 + Get8(d, off + 1)

Get32BE(d, off) == <<Get16BE(d, off), Get16BE(d, off + 2)>>

\* A uint32_t stored without htonl: in the byte order of the host.
Put32Host(d, off, v, le) ==
  IF le THEN PutBytes(d, off, <<v[2] % 256, v[2] \div 256,
                                v[1] % 256, v[1] \div 256>>)
  ELSE Put32BE(d, off, v)

Pow2(k) == 2 ^ k

\* A bit-field of width bits whose lowest bit is bit `shift` of byte off.
GetBits(d, off, shift, width) == (Get8(d, off) \div Pow2(shift)) % Pow2(width)

SetBits(d, off, shift, width, v) ==
  LET old == Get8(d, off)
      cleared == old - GetBits(d, off, shift, width) * Pow2(shift)
  IN Put8(d, off, cleared + (v % Pow2(width)) * Pow2(shift))

RECURSIVE memset(_, _, _, _)
memset(d, off, v, k) ==
  IF k <= 0 THEN d ELSE memset(Put8(d, off, v), off + 1, v, k - 1)

-----------------------------------------------------------------------------
(* hex: hexadecimal text to bytes.                                         *)

RECURSIVE Expand(_)
Expand(s) ==
  IF s = <<>> THEN <<>>
  ELSE [i \in 1..Head(s).n |-> Ch(Head(s).c)] \o Expand(Tail(s))

\* strtol(byte, NULL, 16) of the two characters collected in byte[].
HexPair(a, b) ==
  IF ~isxdigit(a) THEN 0
  ELSE IF ~isxdigit(b) THEN DigitVal(a)
  ELSE 16 * DigitVal(a) + DigitVal(b)

RECURSIVE HexLoop(_, _, _, _, _)
HexLoop(s, d, off, len, byte) ==
  IF s = <<>> THEN [d |-> d, len |-> len]
  ELSE IF isspace(Head(s)) THEN HexLoop(Tail(s), d, off, len, byte)
  ELSE IF byte = <<>> THEN HexLoop(Tail(s), d, off, len, <<Head(s)>>)
  ELSE HexLoop(Tail(s), Put8(d, off + len, HexPair(byte[1], Head(s))),
               off, len + 1, <<>>)

hex(t, d, off) == HexLoop(Expand(t), d, off, 0, <<>>)

-----------------------------------------------------------------------------
(* parse_uint and rtp: one RTP description to a packet.                    *)

\* word is cut at its first '='; value is what follows it, as a number.
ParseUintAt(word, e) ==
  IF e > 0
  THEN [value |-> strtoul(Tl(word, e + 1)), word |-> SubSeq(word, 1, e - 1),
        after |-> Tl(word, e + 1)]
  ELSE [value |-> U32Zero, word |-> <<>>, after |-> <<>>]

parse_uint(word) == ParseUintAt(word, strchr(word, "="))

\* The C string at &word[k] once parse_uint has put a NUL on the '=': the
\* rest of the parameter name, the empty string at the NUL, or the value.
WordAt(pu, k) ==
  IF k < Len(pu.word) THEN Tl(pu.word, k + 1)
  ELSE IF k = Len(pu.word) THEN <<>>
  ELSE Tl(pu.after, k - Len(pu.word))

SIZEOF_RTP_HDR == 16

SIZEOF_RTP_HDR_EXT == 4

RTP_VERSION == 2

\* strncmp(word, "csrc", 4) == 0
IsCsrcWord(w) == Len(w) >= 4 /\ SubSeq(w, 1, 4) = S(<<"c", "s", "r", "c">>)

\* The index k the csrc branch computes: atoi(&word[5]).
CsrcIndex(pu) == atoi(WordAt(pu, 5))

\* The cc the csrc branch keeps: if (k > cc) cc = k.
CsrcCount(cc, k) == IF k > cc THEN k ELSE cc

CsrcWord(st, k, value, le) ==
  [st EXCEPT !.d = Put32Host(@, 12 + 4 * k, value, le),
             !.cc = CsrcCount(st.cc, k),
             !.slots = Append(@, k)]

DataWord(st, r) == [st EXCEPT !.d = r.d, !.pl = r.len]

\* One pass of the while loop of rtp(): st holds the locals and the buffer,
\* pu is what parse_uint made of the word, hcc is h->cc.
RtpWordOf(st, pu, hcc, le) ==
  IF pu.word = S(<<"t", "s">>) THEN [st EXCEPT !.d = Put32BE(@, 4, pu.value)]
  ELSE IF pu.word = S(<<"s", "e", "q">>)
  THEN [st EXCEPT !.d = Put16BE(@, 2, pu.value[2])]
  ELSE IF pu.word = S(<<"p", "t">>)
  THEN [st EXCEPT !.d = SetBits(@, 1, 0, 7, pu.value[2])]
  ELSE IF pu.word = S(<<"s", "s", "r", "c">>)
  THEN [st EXCEPT !.d = Put32BE(@, 8, pu.value)]
  ELSE IF pu.word = S(<<"p">>)
  THEN [st EXCEPT !.d = SetBits(@, 0, 5, 1,
                                IF pu.value # U32Zero THEN 1 ELSE 0)]
  ELSE IF pu.word = S(<<"m">>)
  THEN [st EXCEPT !.d = SetBits(@, 1, 7, 1, pu.value[2])]
  ELSE IF pu.word = S(<<"x">>)
  THEN [st EXCEPT !.d = SetBits(@, 0, 4, 1, pu.value[2])]
  ELSE IF pu.word = S(<<"v">>)
  THEN [st EXCEPT !.d = SetBits(@, 0, 6, 2, pu.value[2])]
  ELSE IF pu.word = S(<<"c", "c">>)
  THEN [st EXCEPT !.d = SetBits(@, 0, 0, 4, pu.value[2])]
  ELSE IF IsCsrcWord(pu.word)
  THEN CsrcWord(st, CsrcIndex(pu), pu.value, le)
  ELSE IF pu.word = S(<<"e", "x", "t", "_", "t", "y", "p", "e">>)
  THEN [st EXCEPT !.d = Put16BE(@, 12 + hcc * 4, pu.value[2]),
                  !.ext_pl = @ + SIZEOF_RTP_HDR_EXT]
  ELSE IF pu.word = S(<<"e", "x", "t", "_", "l", "e", "n">>)
  THEN [st EXCEPT !.d = Put16BE(@, 12 + hcc * 4 + 2, pu.value[2]),
                  !.ext_pl = @ + ToInt(pu.value) * 4]
  ELSE IF pu.word = S(<<"e", "x", "t", "_", "d", "a", "t", "a">>)
  THEN [st EXCEPT !.d = hex(WordAt(pu, 9), @, 12 + hcc * 4 + 4).d]
  ELSE IF pu.word = S(<<"d", "a", "t", "a">>)
  THEN DataWord(st, hex(WordAt(pu, 5), st.d, 12 + hcc * 4 + st.ext_pl))
  ELSE IF pu.word = S(<<"l", "e", "n">>)
  THEN [st EXCEPT !.length = ToInt(pu.value)]
  ELSE st

RtpWord(st, word, le) ==
  RtpWordOf(st, parse_uint(word), GetBits(st.d, 0, 0, 4), le)

RECURSIVE RtpWords(_, _, _)
RtpWords(st, words, le) ==
  IF words = <<>> THEN st
  ELSE RtpWords(RtpWord(st, Head(words), le), Tail(words), le)

\* The defaults: memset(packet, 0, sizeof(rtp_hdr_t)), h->version.
RtpDefaults(d) == SetBits(memset(d, 0, 0, SIZEOF_RTP_HDR), 0, 6, 2, RTP_VERSION)

\* if (h->cc == 0) h->cc = cc;
DefaultCc(d, cc) == IF GetBits(d, 0, 0, 4) = 0 THEN SetBits(d, 0, 0, 4, cc) ELSE d

\* if (length == 0) length = 12 + h->cc * 4 + pl + ext_pl;
DefaultLength(st, d) ==
  IF st.length = 0 THEN 12 + GetBits(d, 0, 0, 4) * 4 + st.pl + st.ext_pl
  ELSE st.length

RtpResult(st, d) ==
  [d |-> d, length |-> DefaultLength(st, d), slots |-> st.slots, exit |-> 0,
   ub |-> FALSE, recs |-> <<>>]

RtpFinish(st) == RtpResult(st, DefaultCc(st.d, st.cc))

\* rtp(text, packet): the packet bytes and the length returned.  slots is
\* history: the CSRC list slots the csrc words wrote, in order.
rtp(t, d, le) ==
  RtpFinish(RtpWords([d |-> RtpDefaults(d), pl |-> 0, ext_pl |-> 0, cc |-> 0,
                      length |-> 0, slots |-> <<>>],
                     strtok(t), le))

-----------------------------------------------------------------------------
(* parse: one RTCP description to a tree.  A node_t is a record: a leaf    *)
(* has a type (hasType) and a number or a string; the node of a            *)
(* parenthesised group has neither and carries the group's nodes in list   *)
(* (the empty sequence is the NULL pointer).                               *)

Leaf(type, num, hasString, string) ==
  [hasType |-> TRUE, type |-> type, num |-> num, hasString |-> hasString,
   string |-> string, list |-> <<>>]

Inner(list) ==
  [hasType |-> FALSE, type |-> <<>>, num |-> U32Zero, hasString |-> FALSE,
   string |-> <<>>, list |-> list]

\* The node made of the parameter/value pair collected in tmp.  The value
\* is a number when it starts with a digit; otherwise its first and last
\* characters are taken for quotation marks and dropped.
LeafParts(type, v) ==
  IF v # <<>> /\ isdigit(v[1]) THEN Leaf(type, strtoul(v), FALSE, <<>>)
  ELSE Leaf(type, U32Zero, TRUE,
            IF Len(v) >= 2 THEN SubSeq(v, 2, Len(v) - 1) ELSE <<>>)

LeafAt(tmp, e) ==
  IF e = 0 THEN Leaf(tmp, U32Zero, FALSE, <<>>)
  ELSE LeafParts(SubSeq(tmp, 1, e - 1), Tl(tmp, e + 1))

LeafOf(tmp) == LeafAt(tmp, strchr(tmp, "="))

RECURSIVE parse(_)

\* if (string) { tmp[c++] = *s; if (*s == '"') string = 0; }
InString(ch, st) ==
  [st EXCEPT !.tmp = Append(@, ch), !.string = (ch.c # "\"")]

\* The other branches of the for loop of parse(), for the character ch.
ParseChar(ch, st) ==
  IF ch.c = "("
  THEN [st EXCEPT !.tmp = IF st.level > 0 THEN Append(@, ch) ELSE <<>>,
                  !.level = @ + 1]
  ELSE IF ch.c = ")"
  THEN IF st.level - 1 = 0
       THEN [st EXCEPT !.level = 0, !.tmp = <<>>,
                       !.first = Append(@, Inner(parse(st.tmp)))]
       ELSE [st EXCEPT !.level = @ - 1, !.tmp = Append(@, ch)]
  ELSE IF ch.c = "\""
  THEN [st EXCEPT !.tmp = Append(@, ch), !.string = TRUE]
  ELSE IF st.level >= 1
  THEN [st EXCEPT !.tmp = Append(@, ch)]
  ELSE IF isspace(ch)
  THEN IF st.tmp # <<>>
       THEN [st EXCEPT !.tmp = <<>>, !.first = Append(@, LeafOf(st.tmp))]
       ELSE st
  ELSE [st EXCEPT !.tmp = Append(@, ch)]

\* for (s = text; *s; s++): the passes over the characters s[lo..hi] from
\* the state st, those of the first half of the range and then the others.
RECURSIVE ParseLoop(_, _, _, _)
ParseLoop(s, lo, hi, st) ==
  IF st.string /\ lo = hi THEN InString(s[lo], st)
  ELSE IF lo = hi THEN ParseChar(s[lo], st)
  ELSE IF lo > hi THEN st
  ELSE ParseLoop(s, ((lo + hi) \div 2) + 1, hi,
                 ParseLoop(s, lo, (lo + hi) \div 2, st))

parse(t) ==
  ParseLoop(t, 1, Len(t),
            [string |-> FALSE, level |-> 0, tmp |-> <<>>, first |-> <<>>]).first

-----------------------------------------------------------------------------
(* The RTCP record writers.  Each takes the record's nodes, the buffer and *)
(* the offset of the record in it, and gives the buffer, the length        *)
(* returned, the exit code when the writer calls exit (0: it returns) and  *)
(* whether it dereferenced a null pointer.                                 *)

RTCP_SR == 200

RTCP_RR == 201

RTCP_SDES == 202

RTCP_BYE == 203

ToLowerC(c) ==
  IF \E i \in 1..26 : UpperCase[i] = c
  THEN LowerCase[CHOOSE i \in 1..26 : UpperCase[i] = c]
  ELSE c

\* strcasecmp(a, b) == 0
SameNoCase(a, b) ==
  Len(a) = Len(b) /\ \A i \in 1..Len(a) : ToLowerC(a[i].c) = ToLowerC(b[i].c)

SdesItemNames ==
  <<S(<<"e", "n", "d">>), S(<<"c", "n", "a", "m", "e">>),
    S(<<"n", "a", "m", "e">>), S(<<"e", "m", "a", "i", "l">>),
    S(<<"p", "h", "o", "n", "e">>), S(<<"l", "o", "c">>),
    S(<<"t", "o", "o", "l">>), S(<<"n", "o", "t", "e">>),
    S(<<"p", "r", "i", "v">>)>>

\* map[i].type of the first entry whose name matches; the {0,0} entry's 0.
SdesItemType(type) ==
  IF \E i \in 1..9 : SameNoCase(type, SdesItemNames[i])
  THEN (CHOOSE i \in 1..9 : SameNoCase(type, SdesItemNames[i])
                            /\ \A j \in 1..(i - 1) :
                                 ~SameNoCase(type, SdesItemNames[j])) - 1
  ELSE 0

\* item->type, item->length (a uint8_t) and strcpy(item->data, string).
SdesItemOf(type, bs, d, off) ==
  [d |-> PutBytes(Put8(Put8(d, off, type), off + 1, Len(bs)), off + 2,
                  Append(bs, 0)),
   len |-> (Len(bs) % 256) + 2, ub |-> FALSE]

\* A leaf with a number has no string: strlen(NULL).
rtcp_sdes_item(n, d, off) ==
  IF ~n.hasString THEN [d |-> d, len |-> 0, ub |-> TRUE]
  ELSE SdesItemOf(SdesItemType(n.type), Bytes(n.string), d, off)

\* No padding: the chunk ends right after its end marker.
PadNone(total) == total

\* (total + 3) & 0xfffc
PadTo32(total) == ((total + 3) - ((total + 3) % 4)) % 65536

AdvanceItem(st, r) ==
  [d |-> r.d, packet |-> st.packet + r.len, total |-> st.total + r.len,
   ub |-> r.ub]

RECURSIVE SdesLoop(_, _, _)
SdesLoop(list, st, off) ==
  IF list = <<>> \/ st.ub THEN st
  ELSE LET n == Head(list) IN
       IF ~n.hasType THEN SdesLoop(Tail(list), st, off)
       ELSE IF n.type = S(<<"s", "r", "c">>)
       THEN SdesLoop(Tail(list), [st EXCEPT !.d = Put32BE(@, off, n.num)],
                     off)
       ELSE SdesLoop(Tail(list),
                     AdvanceItem(st, rtcp_sdes_item(n, st.d, st.packet)), off)

\* The end marker and the padding of a chunk: *packet = RTCP_SDES_END, then
\* memset(packet, 0, len - total) with total already counting the marker.
SdesEnd(d, pk, total, len) == memset(Put8(d, pk, 0), pk, 0, len - total)

SdesFinish(st, total, len) ==
  [d |-> SdesEnd(st.d, st.packet, total, len), len |-> len, ub |-> st.ub]

SdesClose(st) == SdesFinish(st, st.total + 1, PadTo32(st.total + 1))

rtcp_sdes(list, d, off) ==
  SdesClose(SdesLoop(list, [d |-> d, packet |-> off + 4, total |-> 4,
                            ub |-> FALSE], off))

\* The five bytes every writer sets first: length, count, version, pt, p.
CommonHeader(d, off, pt) ==
  Put16BE(Put8(Put8(d, off, RTP_VERSION * 64), off + 1, pt), off + 2, 0)

SetP(d, off, num) == SetBits(d, off, 5, 1, num[2])

SetCount(d, off, num) == SetBits(d, off, 0, 5, num[2])

SetLength(d, off, num) == Put16BE(d, off + 2, num[2])

\* "if no length or count given, fill in": the test is on the field's value.
FillLength(d, off, total) ==
  IF Get16BE(d, off + 2) = 0 THEN Put16BE(d, off + 2, (total - 4) \div 4) ELSE d

FillCount(d, off, count) ==
  IF GetBits(d, off, 0, 5) = 0 THEN SetBits(d, off, 0, 5, count) ELSE d

FillIn(st, off) ==
  IF st.exit # 0 \/ st.ub THEN st
  ELSE [st EXCEPT !.d = FillCount(FillLength(st.d, off, st.total), off, st.count)]

WriterInit(d, off, pt, hdr) ==
  [d |-> CommonHeader(d, off, pt), packet |-> off + hdr, total |-> hdr,
   count |-> 0, exit |-> 0, ub |-> FALSE]

\* The branches p, count and len that the four writers share; FALSE in
\* handled when the node's type is none of them.
CommonLeaf(st, n, off) ==
  IF n.type = S(<<"p">>) THEN [st EXCEPT !.d = SetP(@, off, n.num)]
  ELSE IF n.type = S(<<"c", "o", "u", "n", "t">>)
  THEN [st EXCEPT !.d = SetCount(@, off, n.num)]
  ELSE IF n.type = S(<<"l", "e", "n">>)
  THEN [st EXCEPT !.d = SetLength(@, off, n.num)]
  ELSE [st EXCEPT !.exit = 2]

Advance(st, r) ==
  [st EXCEPT !.d = r.d, !.packet = @ + r.len, !.total = @ + r.len,
             !.count = @ + 1, !.ub = r.ub]

RECURSIVE WriteSdesLoop(_, _, _)
WriteSdesLoop(list, st, off) ==
  IF list = <<>> \/ st.exit # 0 \/ st.ub THEN st
  ELSE LET n == Head(list) IN
       IF n.hasType
       THEN IF n.type = S(<<"S", "D", "E", "S">>)
            THEN WriteSdesLoop(Tail(list), st, off)
            ELSE WriteSdesLoop(Tail(list), CommonLeaf(st, n, off), off)
       ELSE WriteSdesLoop(Tail(list),
                          Advance(st, rtcp_sdes(n.list, st.d, st.packet)), off)

RTCP_SDES_HDR_LEN == 4

rtcp_write_sdes(list, d, off, tv) ==
  FillIn(WriteSdesLoop(list, WriterInit(d, off, RTCP_SDES, RTCP_SDES_HDR_LEN),
                       off), off)

SIZEOF_RTCP_RR == 24

\* RTCP_SET_LOST: the low 24 bits of the number, most significant byte first.
SetLost(d, off, num) ==
  PutBytes(d, off + 5, <<num[1] % 256, num[2] \div 256, num[2] % 256>>)

RECURSIVE RrLoop(_, _, _)
RrLoop(list, st, off) ==
  IF list = <<>> \/ st.exit # 0 THEN st
  ELSE LET n == Head(list)
           d == st.d
       IN
       IF ~n.hasType THEN RrLoop(Tail(list), st, off)
       ELSE RrLoop(Tail(list),
         IF n.type = S(<<"s", "s", "r", "c">>)
         THEN [st EXCEPT !.d = Put32BE(d, off, n.num)]
         ELSE IF n.type = S(<<"f", "r", "a", "c", "t", "i", "o", "n">>)
         THEN [st EXCEPT !.d = Put8(d, off + 4, (n.num[2] * 256) % 256)]
         ELSE IF n.type = S(<<"l", "o", "s", "t">>)
         THEN [st EXCEPT !.d = SetLost(d, off, n.num)]
         ELSE IF n.type = S(<<"l", "a", "s", "t", "_", "s", "e", "q">>)
         THEN [st EXCEPT !.d = Put32BE(d, off + 8, n.num)]
         ELSE IF n.type = S(<<"j", "i", "t">>)
         THEN [st EXCEPT !.d = Put32BE(d, off + 12, n.num)]
         ELSE IF n.type = S(<<"l", "s", "r">>)
         THEN [st EXCEPT !.d = Put32BE(d, off + 16, n.num)]
         ELSE IF n.type = S(<<"d", "l", "s", "r">>)
         THEN [st EXCEPT !.d = Put32BE(d, off + 20, n.num)]
         ELSE [st EXCEPT !.exit = 2],
         off)

RrResult(st) ==
  [d |-> st.d, len |-> SIZEOF_RTCP_RR, ub |-> FALSE, exit |-> st.exit]

rtcp_rr(list, d, off) == RrResult(RrLoop(list, [d |-> d, exit |-> 0], off))

AdvanceRr(st, r) == [Advance(st, r) EXCEPT !.exit = r.exit]

RTCP_SR_HDR_LEN == 28

\* GETTIMEOFDAY_TO_NTP_OFFSET, 2208988800, as a uint32_t.
NTP_OFFSET == <<33706, 32384>>

usec2ntp(usec) ==
  LET t == (usec * 1825) \div 32
  IN Sub32(Add32(MulAdd32(U32(usec), 4096, 0), MulAdd32(U32(usec), 256, 0)),
           U32(t))

RECURSIVE WriteSrLoop(_, _, _)
WriteSrLoop(list, st, off) ==
  IF list = <<>> \/ st.exit # 0 \/ st.ub THEN st
  ELSE LET n == Head(list)
           d == st.d
       IN
       IF n.hasType
       THEN WriteSrLoop(Tail(list),
              IF n.type = S(<<"S", "R">>) THEN st
              ELSE IF n.type = S(<<"s", "s", "r", "c">>)
              THEN [st EXCEPT !.d = Put32BE(d, off + 4, n.num)]
              ELSE IF n.type = S(<<"n", "t", "p">>)
              THEN [st EXCEPT !.d = Put32BE(d, off + 8, n.num)]
              ELSE IF n.type = S(<<"t", "s">>)
              THEN [st EXCEPT !.d = Put32BE(d, off + 16, n.num)]
              ELSE IF n.type = S(<<"p", "s", "e", "n", "t">>)
              THEN [st EXCEPT !.d = Put32BE(d, off + 20, n.num)]
              ELSE IF n.type = S(<<"o", "s", "e", "n", "t">>)
              THEN [st EXCEPT !.d = Put32BE(d, off + 24, n.num)]
              ELSE CommonLeaf(st, n, off),
              off)
       ELSE WriteSrLoop(Tail(list),
                        AdvanceRr(st, rtcp_rr(n.list, st.d, st.packet)), off)

\* r->r.sr.ntp_sec and ntp_frac from gettimeofday.
SrNow(st, off, tv) ==
  [st EXCEPT !.d = Put32BE(Put32BE(@, off + 8,
                                   Add32(U32(tv.tv_sec), NTP_OFFSET)),
                           off + 12, usec2ntp(tv.tv_usec))]

rtcp_write_sr(list, d, off, tv) ==
  FillIn(WriteSrLoop(list,
                     SrNow(WriterInit(d, off, RTCP_SR, RTCP_SR_HDR_LEN), off, tv),
                     off), off)

RTCP_RR_HDR_LEN == 8

RECURSIVE WriteRrLoop(_, _, _)
WriteRrLoop(list, st, off) ==
  IF list = <<>> \/ st.exit # 0 \/ st.ub THEN st
  ELSE LET n == Head(list) IN
       IF n.hasType
       THEN WriteRrLoop(Tail(list),
              IF n.type = S(<<"R", "R">>) THEN st
              ELSE IF n.type = S(<<"s", "s", "r", "c">>)
              THEN [st EXCEPT !.d = Put32BE(st.d, off + 4, n.num)]
              ELSE CommonLeaf(st, n, off),
              off)
       ELSE WriteRrLoop(Tail(list),
                        AdvanceRr(st, rtcp_rr(n.list, st.d, st.packet)), off)

rtcp_write_rr(list, d, off, tv) ==
  FillIn(WriteRrLoop(list, WriterInit(d, off, RTCP_RR, RTCP_RR_HDR_LEN), off),
         off)

RECURSIVE ByeLoop(_, _, _)
ByeLoop(list, d, off) ==
  IF list = <<>> THEN d
  ELSE LET n == Head(list) IN
       ByeLoop(Tail(list),
               IF n.hasType /\ n.type = S(<<"s", "s", "r", "c">>)
               THEN Put32BE(d, off, n.num) ELSE d,
               off)

SIZEOF_UINT32 == 4

rtcp_bye(list, d, off) ==
  [d |-> ByeLoop(list, d, off), len |-> SIZEOF_UINT32, ub |-> FALSE]

RTCP_BYE_HDR_LEN == 4

RECURSIVE WriteByeLoop(_, _, _)
WriteByeLoop(list, st, off) ==
  IF list = <<>> \/ st.exit # 0 \/ st.ub THEN st
  ELSE LET n == Head(list) IN
       IF n.hasType
       THEN IF n.type = S(<<"B", "Y", "E">>)
            THEN WriteByeLoop(Tail(list), st, off)
            ELSE WriteByeLoop(Tail(list), CommonLeaf(st, n, off), off)
       ELSE WriteByeLoop(Tail(list),
                         Advance(st, rtcp_bye(n.list, st.d, st.packet)), off)

rtcp_write_bye(list, d, off, tv) ==
  FillIn(WriteByeLoop(list, WriterInit(d, off, RTCP_BYE, RTCP_BYE_HDR_LEN),
                      off), off)

rtcp_write_app(list, d, off, tv) ==
  [d |-> d, packet |-> off, total |-> 0, count |-> 0, exit |-> 0, ub |-> FALSE]

\* rtcp_map, in its order.
RtcpMapNames ==
  <<S(<<"S", "D", "E", "S">>), S(<<"R", "R">>), S(<<"S", "R">>),
    S(<<"B", "Y", "E">>), S(<<"A", "P", "P">>)>>

RtcpWrite(i, list, d, off, tv) ==
  IF i = 1 THEN rtcp_write_sdes(list, d, off, tv)
  ELSE IF i = 2 THEN rtcp_write_rr(list, d, off, tv)
  ELSE IF i = 3 THEN rtcp_write_sr(list, d, off, tv)
  ELSE IF i = 4 THEN rtcp_write_bye(list, d, off, tv)
  ELSE rtcp_write_app(list, d, off, tv)

\* The first node with a type that is in rtcp_map selects the writer.
RECURSIVE PacketLoop(_, _, _, _, _)
PacketLoop(ns, list, d, off, tv) ==
  IF ns = <<>>
  THEN [d |-> d, packet |-> off, total |-> 0, count |-> 0, exit |-> 2,
        ub |-> FALSE]
  ELSE LET n == Head(ns) IN
       IF n.hasType /\ \E i \in 1..5 : n.type = RtcpMapNames[i]
       THEN RtcpWrite(CHOOSE i \in 1..5 : n.type = RtcpMapNames[i],
                      list, d, off, tv)
       ELSE PacketLoop(Tail(ns), list, d, off, tv)

rtcp_packet(list, d, off, tv) == PacketLoop(list, list, d, off, tv)

\* recs is history: for every record written, its offset, the length its
\* writer returned and whether the record has a len leaf of its own.
AdvanceRecord(st, n, r) ==
  [d |-> r.d, length |-> st.length + r.total, exit |-> r.exit, ub |-> r.ub,
   recs |-> Append(st.recs, [off |-> st.length, len |-> r.total,
                             list |-> n.list])]

RECURSIVE RtcpLoop(_, _, _)
RtcpLoop(ns, st, tv) ==
  IF ns = <<>> \/ st.exit # 0 \/ st.ub THEN st
  ELSE LET n == Head(ns) IN
       IF n.list = <<>> THEN RtcpLoop(Tail(ns), st, tv)
       ELSE RtcpLoop(Tail(ns),
                     AdvanceRecord(st, n, rtcp_packet(n.list, st.d, st.length, tv)),
                     tv)

RtcpResult(st) ==
  [d |-> st.d, length |-> st.length, slots |-> <<>>, exit |-> st.exit,
   ub |-> st.ub, recs |-> st.recs]

rtcp(t, d, tv) ==
  RtcpResult(RtcpLoop(parse(t), [d |-> d, length |-> 0, exit |-> 0,
                                 ub |-> FALSE, recs |-> <<>>], tv))

-----------------------------------------------------------------------------
(* generate: the time and the type of a line, then rtp or rtcp.            *)

RECURSIVE TakeWord(_, _)
TakeWord(s, acc) ==
  IF s = <<>> \/ isspace(Head(s)) THEN acc
  ELSE TakeWord(Tail(s), Append(acc, Head(s)))

\* sscanf(text, "%ld.%ld %s", ...): ok when all three were converted.
ScanName(a, b, name) ==
  [ok |-> b.ok /\ name # <<>>, tv_sec |-> a.val, tv_usec |-> b.val,
   type_name |-> name]

ScanUsec(a, b) ==
  ScanName(a, b, IF b.ok THEN TakeWord(SkipSpace(b.rest), <<>>) ELSE <<>>)

ScanSec(a) ==
  ScanUsec(a, IF a.ok /\ a.rest # <<>> /\ a.rest[1].c = "." /\ a.rest[1].n = 1
              THEN ScanLong(SkipSpace(Tail(a.rest)), 0, FALSE)
              ELSE [val |-> 0, ok |-> FALSE, rest |-> <<>>])

ScanLine(t) == ScanSec(ScanLong(SkipSpace(t), 0, FALSE))

\* What follows the first occurrence of pat in t: strstr(t, pat) + strlen(pat).
StartsAt(t, pat, i) ==
  i + Len(pat) - 1 <= Len(t) /\ SubSeq(t, i, i + Len(pat) - 1) = pat

AfterStr(t, pat) ==
  Tl(t, Len(pat) + (CHOOSE k \in 1..Len(t) :
                      StartsAt(t, pat, k)
                      /\ \A j \in 1..(k - 1) : ~StartsAt(t, pat, j)))

TYPE_NAME_SIZE == 100

Generated(time, type, r) ==
  [d |-> r.d, length |-> r.length, slots |-> r.slots, exit |-> r.exit,
   ub |-> r.ub, recs |-> r.recs, time |-> time, type |-> type]

NotGenerated(d, time, ub) ==
  [d |-> d, length |-> 0, slots |-> <<>>, exit |-> 2, ub |-> ub,
   recs |-> <<>>, time |-> time, type |-> 0]

GenerateOf(sc, time, t, d, tv, le) ==
  IF ~sc.ok THEN NotGenerated(d, time, FALSE)
  ELSE IF strlen(sc.type_name) >= TYPE_NAME_SIZE
  THEN NotGenerated(d, time, TRUE)
  ELSE IF sc.type_name = S(<<"R", "T", "P">>)
  THEN Generated(time, 0, rtp(AfterStr(t, S(<<"R", "T", "P">>)), d, le))
  ELSE IF sc.type_name = S(<<"R", "T", "C", "P">>)
  THEN Generated(time, 1, rtcp(AfterStr(t, S(<<"R", "T", "C", "P">>)), d, tv))
  ELSE NotGenerated(d, time, FALSE)

GenerateAt(sc, t, d, tv, le) ==
  GenerateOf(sc, Tv(sc.tv_sec, sc.tv_usec), t, d, tv, le)

generate(t, d, tv, le) == GenerateAt(ScanLine(t), t, d, tv, le)

-----------------------------------------------------------------------------
(* The line framer of send_handler: fgets and the continuation lines.      *)

MAX_TEXT_LINE == 4096

\* fgets(line, sizeof(line), in) reads at most size - 1 characters, up to
\* and with a newline.  Fits: the first k characters records of the stream
\* can all be read.
Fits(rest, room, k) ==
  strlen(SubSeq(rest, 1, k)) <= room /\ \A j \in 1..(k - 1) : rest[j].c # "\n"

\* got: what was read; hitEof: the read ran into the end of the file.  After
\* the k records that fit, a run of equal characters is cut where the room
\* ends.
FgetsAt(rest, k, left) ==
  IF k > 0 /\ rest[k].c = "\n"
  THEN [got |-> SubSeq(rest, 1, k), rest |-> Tl(rest, k + 1), hitEof |-> FALSE]
  ELSE IF k = Len(rest)
  THEN [got |-> rest, rest |-> <<>>, hitEof |-> left > 0]
  ELSE IF left = 0
  THEN [got |-> SubSeq(rest, 1, k), rest |-> Tl(rest, k + 1), hitEof |-> FALSE]
  ELSE [got |-> Append(SubSeq(rest, 1, k), [rest[k + 1] EXCEPT !.n = left]),
        rest |-> <<[rest[k + 1] EXCEPT !.n = @ - left]>> \o Tl(rest, k + 2),
        hitEof |-> FALSE]

FgetsUpTo(rest, room, k) ==
  FgetsAt(rest, k, room - strlen(SubSeq(rest, 1, k)))

FgetsLoop(rest, room) ==
  FgetsUpTo(rest, room,
            CHOOSE k \in 0..Len(rest) :
              Fits(rest, room, k) /\ (k = Len(rest) \/ ~Fits(rest, room, k + 1)))

fgets(rest, size) == FgetsLoop(rest, size - 1)

\* if (line[0]) { strcpy(text, line); s += strlen(text); }
HeldLine(ln) == ln

Read(st, r, off) ==
  [st EXCEPT !.line = r.got, !.lineOff = off, !.unread = r.rest,
             !.eof = r.hitEof]

\* strcpy(s, line); s += strlen(line);
Appended(st, ln, off) ==
  [st EXCEPT !.text = @ \o ln,
             !.src = IF st.text = <<>> THEN off ELSE @,
             !.need = strlen(st.text \o ln) + 1]

\* The while loop.  st: text so far, the static line, the stream, and as
\* history the file offset of the raw line in line (lineOff), of the first
\* raw line of text (src) and the most bytes a strcpy needed in text.
RECURSIVE FrameLoop(_, _)

FrameStep(st, r, off, size) ==
  IF r.got = <<>> THEN [st EXCEPT !.eof = TRUE]
  ELSE IF r.got[1].c = "#" THEN FrameLoop(Read(st, r, off), size)
  ELSE IF st.text # <<>> /\ ~isspace(r.got[1]) THEN Read(st, r, off)
  ELSE FrameLoop(Appended(Read(st, r, off), r.got, off), size)

FrameLoop(st, size) ==
  FrameStep(st, fgets(st.unread, size), strlen(script) - strlen(st.unread), size)

FrameFrom(held, ln, lnOff, rest) ==
  FrameLoop([text |-> held, line |-> ln, lineOff |-> lnOff, unread |-> rest,
             eof |-> FALSE, src |-> lnOff,
             need |-> IF held = <<>> THEN 0 ELSE strlen(held) + 1],
            MAX_TEXT_LINE)

Frame(ln, lnOff, rest) == FrameFrom(HeldLine(ln), ln, lnOff, rest)

-----------------------------------------------------------------------------
(* send_handler.                                                           *)

\* The datagram send() is given: packet.length bytes of packet.data.
Datagram ==
  [src |-> hist.src, type |-> packet.type,
   bytes |-> [i \in 1..packet.length |-> Get8(data, i - 1)]]

SendPending == IF packet.length # 0 THEN Append(sent, Datagram) ELSE sent

\* if (isfirstpacket) timersub(&this_tv, &packet.time, &basetime);
BaseTime(first, tv, time, base) == IF first THEN timersub(tv, time) ELSE base

\* The seconds alone compared: a playout time earlier in the same second is
\* not seen as past.
InPastWholeSeconds(next_tv, tv) == next_tv.tv_sec < tv.tv_sec

\* past_tv.tv_sec < 0: the playout time is in the past.
InPast(next_tv, tv) == timersub(next_tv, tv).tv_sec < 0

\* The state when the handler is entered at wall time tv and has sent the
\* pending packet.
Entered(tv) ==
  [script |-> script, loop |-> loop, littleEndian |-> littleEndian,
   unread |-> unread, eof |-> eof, line |-> line, text |-> text,
   packet |-> packet, data |-> data, isfirstpacket |-> isfirstpacket,
   basetime |-> basetime, timer |-> timer, now |-> tv, pc |-> pc,
   exitCode |-> exitCode, sent |-> SendPending, warned |-> warned,
   hist |-> hist, ticks |-> ticks + 1]

\* After the framer: the stream, line and text, and the history of the run.
Framed(cur, fr, g, past) ==
  [cur EXCEPT !.unread = fr.unread, !.eof = fr.eof, !.line = fr.line,
              !.text = fr.text,
              !.hist = [src |-> fr.src, lineOff |-> fr.lineOff,
                        need |-> fr.need, recs |-> g.recs, slots |-> g.slots,
                        first |-> cur.isfirstpacket, reset |-> past,
                        rewound |-> cur.eof,
                        rewinds |-> cur.hist.rewinds
                                    + (IF cur.eof THEN 1 ELSE 0)]]

\* The packet is buffered and the timer set for next_tv, or for now with a
\* warning when next_tv is in the past.
Armed(st, g, base, next_tv, past) ==
  [st EXCEPT !.pc = "waiting",
             !.packet = [length |-> g.length, time |-> g.time,
                         type |-> g.type],
             !.data = g.d,
             !.isfirstpacket = FALSE,
             !.basetime = base,
             !.timer = IF past THEN st.now ELSE next_tv,
             !.warned = IF past THEN Append(@, g.time) ELSE @]

Exited(st, g) == [st EXCEPT !.pc = "exited", !.exitCode = g.exit, !.data = g.d]

Undefined(st) == [st EXCEPT !.pc = "undefined"]

\* What the handler can leave behind: undefined behaviour when text was
\* never written, when a strcpy wrote past text (the run may also go on as
\* if it had not) or when the generator read a null pointer or wrote past
\* packet.data.
Outcomes(st, fr, g, done) ==
  IF fr.text = <<>> THEN {Undefined(st)}
  ELSE IF fr.need > MAX_TEXT_LINE THEN {Undefined(st), done}
  ELSE IF g.ub \/ Len(g.d) > PACKET_DATA_SIZE THEN {Undefined(st)}
  ELSE {done}

Scheduled(cur, fr, g, base, next_tv, past) ==
  Outcomes(Framed(cur, fr, g, past), fr, g,
           IF g.exit # 0 THEN Exited(Framed(cur, fr, g, past), g)
           ELSE Armed(Framed(cur, fr, g, past), g, base, next_tv, past))

Timed(cur, fr, g, base, next_tv) ==
  Scheduled(cur, fr, g, base, next_tv, InPast(next_tv, cur.now))

Based(cur, fr, g, base) == Timed(cur, fr, g, base, timeradd(base, g.time))

GeneratedFrom(cur, fr, g) ==
  Based(cur, fr, g, BaseTime(cur.isfirstpacket, cur.now, g.time, cur.basetime))

FramedFrom(cur, fr) ==
  GeneratedFrom(cur, fr, generate(fr.text, cur.data, cur.now, cur.littleEndian))

\* The loop flag not consulted: the file is rewound at every end of file.
AtEofRewind(cur) ==
  FramedFrom(cur, Frame(cur.line, cur.hist.lineOff,
                        IF cur.eof THEN cur.script ELSE cur.unread))

\* notify_stop() without the exit: the handler returns and nothing is left
\* to run.
AtEofStop(cur) ==
  IF cur.eof /\ ~cur.loop
  THEN {[cur EXCEPT !.pc = "stopped"]}
  ELSE FramedFrom(cur, Frame(cur.line, cur.hist.lineOff,
                             IF cur.eof THEN cur.script ELSE cur.unread))

\* if (feof(in)): rewind when looping, else notify_stop and exit(0).
AtEof(cur) ==
  IF cur.eof /\ ~cur.loop
  THEN {[cur EXCEPT !.pc = "exited", !.exitCode = 0]}
  ELSE FramedFrom(cur, Frame(cur.line, cur.hist.lineOff,
                             IF cur.eof THEN cur.script ELSE cur.unread))

\* The states send_handler can leave behind when it runs at wall time tv.
Handler(tv) == AtEof(Entered(tv))

Become(s) ==
  /\ script' = s.script
  /\ loop' = s.loop
  /\ littleEndian' = s.littleEndian
  /\ unread' = s.unread
  /\ eof' = s.eof
  /\ line' = s.line
  /\ text' = s.text
  /\ packet' = s.packet
  /\ data' = s.data
  /\ isfirstpacket' = s.isfirstpacket
  /\ basetime' = s.basetime
  /\ timer' = s.timer
  /\ now' = s.now
  /\ pc' = s.pc
  /\ exitCode' = s.exitCode
  /\ sent' = s.sent
  /\ warned' = s.warned
  /\ hist' = s.hist
  /\ ticks' = s.ticks

\* main calls send_handler once itself, before notify_start.
MainCall ==
  /\ pc = "main"
  /\ \E s \in Handler(now) : Become(s)

LateUsec == 600000

MaxRewinds == 1

Lateness == {Tv(0, 0), Tv(0, LateUsec)}

\* The timer set by timer_set expires: the handler runs at its deadline or
\* late, never early.
TimerFire ==
  /\ pc = "waiting"
  /\ hist.rewinds <= MaxRewinds
  /\ \E late \in Lateness :
       \E s \in Handler(timeradd(IF TvLess(now, timer) THEN timer ELSE now, late)) :
         Become(s)

Next == MainCall \/ TimerFire

-----------------------------------------------------------------------------
(* Scripts.                                                                *)

RECURSIVE Dec(_)
Dec(k) ==
  IF k < 10 THEN <<Ch(DecDigits[k + 1])>>
  ELSE Append(Dec(k \div 10), Ch(DecDigits[(k % 10) + 1]))

NL == S(<<"\n">>)

SP == S(<<" ">>)

TimeText(tv) == Dec(tv.tv_sec) \o S(<<".">>) \o Dec(tv.tv_usec)

RtpHead(tv) == TimeText(tv) \o S(<<" ", "R", "T", "P">>)

RtcpHead(tv) == TimeText(tv) \o S(<<" ", "R", "T", "C", "P">>)

SeqWord(k) == S(<<" ", "s", "e", "q", "=">>) \o Dec(k)

RECURSIVE Concat(_)
Concat(ss) == IF ss = <<>> THEN <<>> ELSE Head(ss) \o Concat(Tail(ss))

InitWith(scripts, loops, endians, starts) ==
  /\ script \in scripts
  /\ loop \in loops
  /\ littleEndian \in endians
  /\ unread = script
  /\ eof = FALSE
  /\ line = <<>>
  /\ text = <<>>
  /\ packet = [length |-> 0, time |-> Tv(0, 0), type |-> 0]
  /\ data = <<>>
  /\ isfirstpacket = TRUE
  /\ basetime = Tv(0, 0)
  /\ timer = Tv(0, 0)
  /\ now \in starts
  /\ pc = "main"
  /\ exitCode = 0
  /\ sent = <<>>
  /\ warned = <<>>
  /\ hist = [src |-> 0, lineOff |-> 0, need |-> 0, recs |-> <<>>,
             slots |-> <<>>, first |-> FALSE, reset |-> FALSE, rewound |-> FALSE,
             rewinds |-> 0]
  /\ ticks = 0

MaxLines == 3

Times == {Tv(0, 0), Tv(0, 500000), Tv(1, 0)}

StartTimes == {Tv(100, 0), Tv(100, 700000)}

\* Scripts of up to MaxLines RTP lines with any of the times, in four
\* shapes: plain; the last line without its newline; a comment line at the
\* end; a comment line and a continuation line after the first line.
PacerLines(ts) == [i \in 1..Len(ts) |-> RtpHead(ts[i]) \o SeqWord(i) \o NL]

Comment == S(<<"#", " ", "x">>) \o NL

Continuation == S(<<" ", "t", "s", "=", "5">>) \o NL

PacerScript(ts, shape) ==
  LET ls == PacerLines(ts)
      all == Concat(ls)
  IN IF shape = "plain" THEN all
     ELSE IF shape = "nonl" THEN SubSeq(all, 1, Len(all) - 1)
     ELSE IF shape = "comment" THEN all \o Comment
     ELSE ls[1] \o Comment \o Continuation \o Concat(Tail(ls))

PacerScripts(n) ==
  {PacerScript(ts, shape) :
     ts \in UNION {[1..k -> Times] : k \in 1..n},
     shape \in {"plain", "nonl", "comment", "cont"}}

\* The scripts played with -l are shorter: every pass sends them again.
MaxLoopLines == 2

Init ==
  \/ InitWith(PacerScripts(MaxLines), {FALSE}, {TRUE}, StartTimes)
  \/ InitWith(PacerScripts(MaxLoopLines), {TRUE}, {TRUE}, StartTimes)

Spec == Init /\ [][Next]_vars

\* The scheduling of the handler.  main calls it once and then runs the
\* timers in notify_start, where a pending timer expires in the end.  Every
\* run of the handler adds one to ticks: a Start step is a MainCall step, a
\* Tick step is a TimerFire step, and each is enabled exactly when that one
\* is.
Start == pc = "main" /\ ticks' = ticks + 1

Tick == pc = "waiting" /\ hist.rewinds <= MaxRewinds /\ ticks' = ticks + 1

FairSpec == Init /\ [][Next]_vars /\ WF_ticks(Start) /\ WF_ticks(Tick)

-----------------------------------------------------------------------------
(* The pacer: order of transmission, warnings, rewinding, termination.     *)

\* The sequence number in the RTP header of a datagram.
SeqOf(dg) == dg.bytes[3] * 256 + dg.bytes[4]

\* C1: without -l, the datagrams handed to the sockets are the packets of
\* the script's lines in the order of the file, each at most once: the i-th
\* datagram sent is the packet of the i-th line (the lines are numbered by
\* their seq), and it was read further on in the file than the one before.
C1_ScriptOrder ==
  ~loop =>
    \A i \in 1..Len(sent) :
      /\ SeqOf(sent[i]) = i
      /\ \A j \in 1..(i - 1) : sent[j].src < sent[i].src

\* C1: a run without -l that has sent three packets although the script
\* times decrease somewhere (a warning was given).
C1_Witness == ~loop /\ Len(sent) = 3 /\ warned # <<>>

\* C4: when the handler buffers a line whose script time is smaller than
\* that of the line buffered before it, it gives the warning for that line
\* and sets the timer to the current time; and every run of the handler
\* sends the packet buffered by the run before, so the line goes out at the
\* next tick, right after its predecessor.
C4_NonMonotonic ==
  [][/\ (pc = "waiting" /\ pc' = "waiting"
         /\ TvLess(packet'.time, packet.time))
        => (warned' = Append(warned, packet'.time) /\ timer' = now')
     /\ (pc = "waiting" /\ packet.length # 0)
        => sent' = Append(sent, Datagram)]_vars

\* C4: the third line of a script with the times 0.0, 1.0, 0.5 is buffered:
\* two packets are sent, the warning names 0.5 and the timer is set to now.
C4_Witness ==
  /\ pc = "waiting"
  /\ ~loop
  /\ Len(sent) = 2
  /\ sent[2].src > sent[1].src
  /\ packet.time = Tv(0, 500000)
  /\ warned = <<Tv(0, 500000)>>
  /\ timer = now

\* C5 (as the spec states it): the run of the handler that rewinds the file
\* sets basetime to the current time less the script time of the line it
\* buffers.
C5_Reanchored ==
  (pc = "waiting" /\ hist.rewound) => basetime = timersub(now, packet.time)

\* C8: without -l the run ends: the handler sees the end of the file and
\* the process exits with code 0; on the way a timer is always pending.
C8_Terminates ==
  /\ [](~loop => pc \in {"main", "waiting", "exited"})
  /\ <>(loop \/ (pc = "exited" /\ exitCode = 0))

\* C8: a run without -l that has exited with code 0 after sending all three
\* lines of its script.
C8_Witness == ~loop /\ pc = "exited" /\ exitCode = 0 /\ Len(sent) = 3

-----------------------------------------------------------------------------
(* RTCP scripts: one RTCP line, alone or after an RTP line that leaves     *)
(* 0xff bytes in the packet buffer.                                        *)

LP == S(<<"(">>)

RP == S(<<")">>)

Quote == S(<<"\"">>)

\* name=value, with a value that starts with a digit.
NumLeaf(name, digits) == name \o S(<<"=">>) \o digits

\* name="value"
StrLeaf(name, value) == name \o S(<<"=">>) \o Quote \o value \o Quote

\* parts separated by blanks.
RECURSIVE Join(_)
Join(parts) ==
  IF parts = <<>> THEN <<>>
  ELSE IF Len(parts) = 1 THEN parts[1]
  ELSE parts[1] \o SP \o Join(Tail(parts))

\* A parenthesised group of leaves; tight: no blank before the closing
\* parenthesis, as in (ssrc=0x1).
Group(parts, tight) == LP \o Join(parts) \o (IF tight THEN <<>> ELSE SP) \o RP

\* A record: its type, its own leaves (a blank after each) and its groups.
Record(type, leaves, groups) ==
  LP \o type \o SP \o Concat([i \in 1..Len(leaves) |-> leaves[i] \o SP])
     \o Concat(groups) \o RP

RtcpLine(tv, records) == RtcpHead(tv) \o SP \o Concat(records) \o NL

Hex(k) == S(<<"0", "x">>) \o Dec(k)

SSRC == S(<<"s", "s", "r", "c">>)

SRC == S(<<"s", "r", "c">>)

CNAME == S(<<"c", "n", "a", "m", "e">>)

BYE == S(<<"B", "Y", "E">>)

SDES == S(<<"S", "D", "E", "S">>)

SR == S(<<"S", "R">>)

RR == S(<<"R", "R">>)

P == S(<<"p">>)

COUNT == S(<<"c", "o", "u", "n", "t">>)

LEN == S(<<"l", "e", "n">>)

\* The leaves a record has of its own: none, or p, count and len with values
\* that fit their fields, 0 among them.
LeafSets ==
  {<<>>, <<NumLeaf(P, Dec(1))>>, <<NumLeaf(COUNT, Dec(0))>>,
   <<NumLeaf(COUNT, Dec(3))>>, <<NumLeaf(LEN, Dec(0))>>,
   <<NumLeaf(LEN, Dec(5))>>,
   <<NumLeaf(P, Dec(0)), NumLeaf(COUNT, Dec(31)), NumLeaf(LEN, Dec(2))>>}

MaxChildren == 2

MaxItemLen == 4

\* (BYE leaves (ssrc=0x1 ) (ssrc=0x2 ) ...)
ByeRecord(leaves, k, tight) ==
  Record(BYE, leaves,
         [i \in 1..k |-> Group(<<NumLeaf(SSRC, Hex(i))>>, tight)])

ByeRecords ==
  {ByeRecord(ls, k, tight) :
     ls \in LeafSets, k \in 0..MaxChildren, tight \in BOOLEAN}

ItemText(k) == [i \in 1..k |-> Ch("a")]

\* (SDES leaves (src=1 cname="a..." ) ...): k chunks, the item text of the
\* i-th chunk j + i - 1 characters long.
SdesRecord(leaves, k, j, tight) ==
  Record(SDES, leaves,
         [i \in 1..k |->
            Group(<<NumLeaf(SRC, Dec(i)), StrLeaf(CNAME, ItemText(j + i - 1))>>,
                  tight)])

SdesRecords ==
  {SdesRecord(ls, k, j, tight) :
     ls \in {<<>>, <<NumLeaf(LEN, Dec(0))>>, <<NumLeaf(COUNT, Dec(0))>>},
     k \in 0..MaxChildren, j \in 0..MaxItemLen, tight \in BOOLEAN}

ReportBlock(i) ==
  Group(<<NumLeaf(SSRC, Dec(i)), NumLeaf(S(<<"l", "o", "s", "t">>), Dec(i)),
          NumLeaf(S(<<"j", "i", "t">>), Dec(7))>>, FALSE)

\* (SR leaves ssrc=1 ts=9 (ssrc=1 lost=1 jit=7 ) ...)
SrRecord(leaves, k) ==
  Record(SR, leaves \o <<NumLeaf(SSRC, Dec(1)), NumLeaf(S(<<"t", "s">>), Dec(9))>>,
         [i \in 1..k |-> ReportBlock(i)])

\* (RR leaves ssrc=1 (ssrc=1 lost=1 jit=7 ) ...)
RrRecord(leaves, k) ==
  Record(RR, leaves \o <<NumLeaf(SSRC, Dec(1))>>, [i \in 1..k |-> ReportBlock(i)])

ReportRecords ==
  {SrRecord(ls, k) : ls \in LeafSets, k \in 0..MaxChildren}
  \cup {RrRecord(ls, k) : ls \in LeafSets, k \in 0..MaxChildren}

\* Compound packets: a report and then an SDES or a BYE record.
Compounds ==
  {<<r, q>> :
     r \in {SrRecord(<<>>, 1), RrRecord(<<>>, 0)},
     q \in {SdesRecord(<<>>, 1, 1, FALSE), SdesRecord(<<>>, 2, 2, FALSE),
            ByeRecord(<<>>, 1, FALSE)}}

RtcpLines ==
  {RtcpLine(Tv(0, 0), <<r>>) : r \in ByeRecords \cup SdesRecords \cup ReportRecords}
  \cup {RtcpLine(Tv(0, 0), rs) : rs \in Compounds}

\* An RTP line whose packet leaves 0xff in bytes 4 to 23 of the buffer.
DirtyLine ==
  RtpHead(Tv(0, 0))
    \o S(<<" ", "t", "s", "=", "0", "x", "f", "f", "f", "f", "f", "f", "f", "f">>)
    \o S(<<" ", "s", "s", "r", "c", "=", "0", "x", "f", "f", "f", "f", "f", "f",
           "f", "f">>)
    \o S(<<" ", "d", "a", "t", "a", "=">>) \o [i \in 1..24 |-> Ch("f")] \o NL

RtcpScripts == RtcpLines \cup {DirtyLine \o l : l \in RtcpLines}

InitRtcp == InitWith(RtcpScripts, {FALSE}, {TRUE}, StartTimes)

SpecRtcp == InitRtcp /\ [][Next]_vars

-----------------------------------------------------------------------------
(* RTCP records: the bytes of BYE, the lengths, the fields given as leaves. *)

\* The line of the scenario: 0.0 RTCP (BYE (ssrc=0x1)), nothing between the
\* value and the parentheses.
ByeScenarioLine == RtcpLine(Tv(0, 0), <<ByeRecord(<<>>, 1, TRUE)>>)

\* C2 (as the spec states it): the packet buffered for the line
\* 0.0 RTCP (BYE (ssrc=0x1)) is the 8 bytes 81 CB 00 01 00 00 00 01, for
\* socket 1.
C2_ByeBytes ==
  (pc = "waiting" /\ text = ByeScenarioLine) =>
    /\ packet.length = 8
    /\ packet.type = 1
    /\ [i \in 1..8 |-> Get8(data, i - 1)] = <<129, 203, 0, 1, 0, 0, 0, 1>>

\* The record was written by one of the SDES, SR, RR and BYE writers.
IsReport(list) ==
  \E i \in 1..Len(list) :
    list[i].hasType /\ list[i].type \in {SDES, SR, RR, BYE}

\* The leaves of a record with the given type, in their order.
LeavesOf(list, type) ==
  {i \in 1..Len(list) : list[i].hasType /\ list[i].type = type}

\* C3: every SDES, SR, RR or BYE record written without a len leaf takes a
\* multiple of 4 bytes and has the length field bytes / 4 - 1, and the
\* length of the whole RTCP packet is a multiple of 4.
C3_RecordLength ==
  (pc = "waiting" /\ packet.type = 1) =>
    /\ packet.length % 4 = 0
    /\ \A i \in 1..Len(hist.recs) :
         IsReport(hist.recs[i].list) =>
           /\ hist.recs[i].len % 4 = 0
           /\ LeavesOf(hist.recs[i].list, LEN) = {} =>
                Get16BE(data, hist.recs[i].off + 2)
                  = (hist.recs[i].len \div 4) - 1

\* C3: a compound packet is buffered whose second record is an SDES record
\* of two chunks with item texts of 2 and 3 characters, each padded to 12
\* bytes.
C3_Witness ==
  /\ pc = "waiting"
  /\ packet.type = 1
  /\ Len(hist.recs) = 2
  /\ hist.recs[2].len = 28
  /\ Get8(data, hist.recs[2].off + 1) = RTCP_SDES
  /\ Get16BE(data, hist.recs[2].off + 2) = 6
  /\ packet.length = hist.recs[1].len + 28

\* C7 (as the spec states it): in every record written, the fields p,
\* count and length have the values of the record's leaves p, count and
\* len, 0 included.
C7_LeafOverrides ==
  (pc = "waiting" /\ packet.type = 1) =>
    \A i \in 1..Len(hist.recs) :
      IsReport(hist.recs[i].list) =>
        /\ \A k \in LeavesOf(hist.recs[i].list, P) :
             GetBits(data, hist.recs[i].off, 5, 1) = hist.recs[i].list[k].num[2]
        /\ \A k \in LeavesOf(hist.recs[i].list, COUNT) :
             GetBits(data, hist.recs[i].off, 0, 5) = hist.recs[i].list[k].num[2]
        /\ \A k \in LeavesOf(hist.recs[i].list, LEN) :
             Get16BE(data, hist.recs[i].off + 2) = hist.recs[i].list[k].num[2]

-----------------------------------------------------------------------------
(* RTP scripts with csrc words, and the CC field and CSRC slots they give. *)

CSRC == S(<<"c", "s", "r", "c">>)

\* csrc<n>=<v>, or csrc[<n>]=<v> as rtpdump prints the word
CsrcLeaf(n, v, bracket) ==
  SP \o NumLeaf(CSRC \o (IF bracket THEN S(<<"[">>) \o Dec(n) \o S(<<"]">>) ELSE Dec(n)),
                Dec(v))

\* Indices in the CSRC list and past its end.
CsrcIndices == {0, 1, 2, 3, 12, 15, 16, 199}

\* <t> RTP seq=1 csrc<n>=7 and <t> RTP seq=1 csrc<n>=7 csrc<m>=9, in both forms
CsrcLines ==
  {RtpHead(Tv(0, 0)) \o SeqWord(1) \o CsrcLeaf(n, 7, b) \o NL :
     n \in CsrcIndices, b \in BOOLEAN}
  \cup {RtpHead(Tv(0, 0)) \o SeqWord(1) \o CsrcLeaf(n, 7, b) \o CsrcLeaf(m, 9, b) \o NL :
          n \in CsrcIndices, m \in CsrcIndices, b \in BOOLEAN}

InitRtp == InitWith(CsrcLines, {FALSE}, BOOLEAN, StartTimes)

SpecRtp == InitRtp /\ [][Next]_vars

\* The csrc words of an RTP line as the script has them, in their order, and
\* the index each names: the decimal number between csrc and the '='.
IsCsrcToken(w) == IsCsrcWord(w) /\ strchr(w, "=") > 5

CsrcTokens(t) == SelectSeq(strtok(AfterStr(t, S(<<"R", "T", "P">>))), IsCsrcToken)

NamedIndex(w) ==
  IF w[5].c = "[" THEN atoi(SubSeq(w, 6, strchr(w, "=") - 1))
  ELSE atoi(SubSeq(w, 5, strchr(w, "=") - 1))

NamedIndices(t) == {NamedIndex(CsrcTokens(t)[i]) : i \in 1..Len(CsrcTokens(t))}

Max(ks) == CHOOSE k \in ks : \A j \in ks : j <= k

\* C6 (as the spec states it): the packet buffered for an RTP line with
\* csrc words and no cc word has the CC field max(N) + 1 (for the lines
\* where that fits the field).
C6_CsrcCount ==
  (pc = "waiting" /\ packet.type = 0 /\ NamedIndices(text) # {}
   /\ Max(NamedIndices(text)) < 15) =>
    GetBits(data, 0, 0, 4) = Max(NamedIndices(text)) + 1

\* C9 (as the spec states it): the i-th csrc word of the line writes the
\* slot of the CSRC list it names when that is one of 0..15, and no word
\* writes a slot outside 0..15.
C9_CsrcSlots ==
  (pc = "waiting" /\ packet.type = 0) =>
    /\ Len(hist.slots) = Len(CsrcTokens(text))
    /\ \A i \in 1..Len(hist.slots) :
         /\ hist.slots[i] \in 0..15
         /\ NamedIndex(CsrcTokens(text)[i]) \in 0..15 =>
              hist.slots[i] = NamedIndex(CsrcTokens(text)[i])

-----------------------------------------------------------------------------
(* Long lines: a logical line about as long as the text buffer.            *)

\* The first line of the script is "0.0 RTP seq=1 xxx...x\n", with as many
\* x as make the lines up to the length wanted.
LongHead(len) ==
  RtpHead(Tv(0, 0)) \o SeqWord(1) \o SP \o Run("x", len - 15) \o NL

\* A continuation line " xxx...x\n" of the given length.
LongContinuation(len) == SP \o Run("x", len - 2) \o NL

Follower == RtpHead(Tv(1, 0)) \o SeqWord(2) \o NL

LongLineMin == 4090

LongLineMax == 4097

SplitAt == 2048

\* One logical line of len bytes: one raw line, or a raw line of cut bytes
\* and a continuation line; then the end of the file or one more line.
LongLine(len, cut) ==
  IF cut = 0 THEN LongHead(len)
  ELSE LongHead(cut) \o LongContinuation(len - cut)

LongScripts ==
  {LongLine(len, cut) \o tail :
     len \in LongLineMin..LongLineMax, cut \in {0, 100, SplitAt},
     tail \in {<<>>, Follower}}

InitFramer == InitWith(LongScripts, {FALSE}, {TRUE}, StartTimes)

SpecFramer == InitFramer /\ [][Next]_vars

\* Where the first logical line of the script ends: at the first newline
\* that no continuation line and no comment line follows.
EndsLine(t, i) ==
  t[i].c = "\n" /\ (i = Len(t) \/ (~isspace(t[i + 1]) /\ t[i + 1].c # "#"))

FirstLine(t) ==
  SubSeq(t, 1, CHOOSE i \in 1..Len(t) :
                 EndsLine(t, i) /\ \A j \in 1..(i - 1) : ~EndsLine(t, j))

\* C10 (as the spec states it): when the first logical line of the script
\* has up to 4096 bytes, the first run of the handler assembles the whole
\* of it in text without writing past the 4096 bytes of text, and buffers
\* its packet.
C10_LineAccepted ==
  (ticks = 1 /\ strlen(FirstLine(script)) <= MAX_TEXT_LINE) =>
    /\ pc = "waiting"
    /\ strlen(text) = strlen(FirstLine(script))
    /\ hist.need <= MAX_TEXT_LINE

-----------------------------------------------------------------------------
(* Looping: what every pass over the file sends.                           *)

\* A raw line of the script starts at i and is the head of a logical line:
\* neither a comment nor a continuation line.
IsHeadAt(t, i) ==
  (i = 1 \/ t[i - 1].c = "\n") /\ ~isspace(t[i]) /\ t[i].c # "#"

\* The number of logical lines of the script.
LogicalLines(t) == Cardinality({i \in 1..Len(t) : IsHeadAt(t, i)})

\* C11 (as the spec states it): with -l the handler never takes anything
\* but a line of the script for a packet description (it does not exit and
\* stays defined), and the datagrams sent are the packets of the lines
\* L1..Ln, L1..Ln, ...: the i-th datagram is that of line ((i - 1) mod n) + 1.
C11_LoopOrder ==
  loop =>
    /\ pc \in {"main", "waiting"}
    /\ \A i \in 1..Len(sent) :
         SeqOf(sent[i]) = ((i - 1) % LogicalLines(script)) + 1

-----------------------------------------------------------------------------
(* SDES chunks: the END byte and the padding.                              *)

\* The bytes of the items of a chunk: type, length and text of every leaf
\* but src.
RECURSIVE ItemBytes(_)
ItemBytes(list) ==
  IF list = <<>> THEN 0
  ELSE (IF Head(list).hasType /\ Head(list).type # SRC
        THEN strlen(Head(list).string) + 2 ELSE 0)
       + ItemBytes(Tail(list))

\* The chunk's length: SRC, items and END, up to the next 32-bit boundary.
ChunkBytes(list) == 4 * ((4 + ItemBytes(list) + 1 + 3) \div 4)

\* The chunks of an SDES record: its nodes that are groups, in their order.
IsGroup(n) == ~n.hasType

ChunksOf(list) == SelectSeq(list, IsGroup)

\* Where the k-th chunk of the record at off starts in the packet.
RECURSIVE ChunkStart(_, _, _)
ChunkStart(chunks, off, k) ==
  IF k = 1 THEN off + RTCP_SDES_HDR_LEN
  ELSE ChunkStart(chunks, off, k - 1) + ChunkBytes(chunks[k - 1].list)

\* C12 (as the spec states it): in every SDES record of the packet
\* buffered, every byte of every chunk from its END byte, which follows the
\* last item, to the end of the chunk is 0.
C12_ChunkPadding ==
  (pc = "waiting" /\ packet.type = 1) =>
    \A i \in 1..Len(hist.recs) :
      LeavesOf(hist.recs[i].list, SDES) # {} =>
        \A k \in 1..Len(ChunksOf(hist.recs[i].list)) :
          \A b \in 0..(ChunkBytes(ChunksOf(hist.recs[i].list)[k].list) - 1) :
            b >= 4 + ItemBytes(ChunksOf(hist.recs[i].list)[k].list) =>
              Get8(data, ChunkStart(ChunksOf(hist.recs[i].list),
                                    hist.recs[i].off, k) + b) = 0

-----------------------------------------------------------------------------
(* The end of the run without -l.                                          *)

\* C13 (as the spec states it): without -l, when the process has exited
\* with code 0 the packet of every logical line of the script has been
\* sent: there are as many datagrams as logical lines, the i-th that of
\* line i.
C13_AllSentAtExit ==
  (~loop /\ pc = "exited" /\ exitCode = 0) =>
    /\ Len(sent) = LogicalLines(script)
    /\ \A i \in 1..Len(sent) : SeqOf(sent[i]) = i

-----------------------------------------------------------------------------
(* The packet buffer across packets.                                       *)

\* The first n bytes of the buffer d.
BytesOf(d, n) == [i \in 1..n |-> Get8(d, i - 1)]

\* C14 (as the spec states it): the bytes of the packet buffered for a line
\* are those the same line gives at the same wall time in a run where it is
\* the first line, the buffer never written before, whatever lines came
\* before it in this run.
C14_OwnLineOnly ==
  pc = "waiting" =>
    BytesOf(data, packet.length)
      = BytesOf(generate(text, <<>>, now, littleEndian).d, packet.length)

-----------------------------------------------------------------------------
(* Warnings for scripts whose times do not decrease.                       *)

\* The script time of the logical line whose head starts at i.
TimeAt(t, i) == Tv(ScanLine(Tl(t, i)).tv_sec, ScanLine(Tl(t, i)).tv_usec)

\* No line of the script has a time smaller than that of a line before it.
NonDecreasing(t) ==
  \A i \in 1..Len(t) : \A j \in (i + 1)..Len(t) :
    (IsHeadAt(t, i) /\ IsHeadAt(t, j)) => ~TvLess(TimeAt(t, j), TimeAt(t, i))

\* C15 (as the spec states it): while a script whose times do not decrease
\* is played once, no warning is given, however late the timer fires.
C15_NoSpuriousWarning ==
  (~loop /\ NonDecreasing(script)) => warned = <<>>

=============================================================================
